---- MODULE Spec2Model ----
(***************************************************************************)
(* Region quadtree (juaquin456/Region-QuadTree).                           *)
(*                                                                         *)
(* The model follows src/src/region_qt.rs and                              *)
(* src/src/region_qt/primitives.rs.  A tree is a function from paths       *)
(* (sequences of child indices 0..3, the root being the empty path) to     *)
(* nodes; child i of the node at path p is present iff Append(p, i) is in  *)
(* the domain, and root = None is the function with the empty domain.      *)
(* The recursion of RegionNodeQt::update is unfolded over an explicit      *)
(* call stack: one Update step is one invocation of update, and the calls  *)
(* it makes on its four children are pushed in index order.                *)
(***************************************************************************)
EXTENDS Integers, Sequences, FiniteSets, TLC

\* ------------------------------------------------------------------ bounds
MaxW == 4
MaxH == 4
\* images of at most MaxDense pixels are enumerated exhaustively
MaxDense == 8
\* larger images differ from a background colour in at most MaxDiff pixels
MaxDiff == 1
\* coordinates tried on BoundingBox::new range over 0..MaxCoord
MaxCoord == 3
\* images of at most MaxSmall pixels are rebuilt, and written and cut short
MaxSmall == 3

\* ------------------------------------------------------------ pixel values
\* [u8; 4] channel values of the pixels of the decoded images
Palette == { <<10, 20, 30, 255>>, <<0, 0, 0, 255>> }

\* enum Color { Gray, Data([u8; 4]) }
Gray == [tag |-> "Gray", c |-> <<>>]
Data(c) == [tag |-> "Data", c |-> c]
\* the unwinding of a panic out of a function that returns a Color
Panic == [tag |-> "Panic", c |-> <<>>]

\* ------------------------------------------------- primitives.rs: Point
Point(x, y) == [x |-> x, y |-> y]

\* On the coordinates of the images modelled here no sum comes near 2^32;
\* centerU32 below is the same arithmetic at the width of u32.
PointAdd(p, q) == [x |-> p.x + q.x, y |-> p.y + q.y]

PointDiv(p, rhs) == [x |-> p.x \div rhs, y |-> p.y \div rhs]

\* #[derive(PartialOrd)] on a struct compares the fields in declaration
\* order: x first, y only when the x's are equal.
PointLe(p, q) == (p.x < q.x) \/ (p.x = q.x /\ p.y <= q.y)

\* -------------------------------------------- primitives.rs: BoundingBox
\* assert!(min <= max) of BoundingBox::new
BoundingBoxNewOk(min, max) == PointLe(min, max)

BoundingBoxNew(min, max) == [min |-> min, max |-> max]

\* center rounding up: (min + max + (1, 1)) / 2
center_ceil(b) == PointDiv(PointAdd(PointAdd(b.min, b.max), Point(1, 1)), 2)

center(b) == PointDiv(PointAdd(b.min, b.max), 2)

\* --------------------------------- primitives.rs at the width of u32
\* A u32 is kept as two 16-bit halves, value = hi * Half + lo, so that the
\* sums that pass 2^32 can be computed.
Half == 65536

U32(hi, lo) == [hi |-> hi, lo |-> lo]

\* a + b in full: the low 32 bits and whether the sum passed 2^32
WideAdd(a, b) ==
    [ovf |-> (a.hi + b.hi + (a.lo + b.lo) \div Half) >= Half,
     v   |-> U32((a.hi + b.hi + (a.lo + b.lo) \div Half) % Half,
                 (a.lo + b.lo) % Half)]

\* u32 / u32 for a divisor that fits in a half
DivU32(a, rhs) ==
    U32(a.hi \div rhs, ((a.hi % rhs) * Half + a.lo) \div rhs)

LeU32(a, b) == (a.hi < b.hi) \/ (a.hi = b.hi /\ a.lo <= b.lo)

\* derived PartialOrd of Point, on u32 coordinates
PointLeU32(p, q) ==
    (p.x # q.x /\ LeU32(p.x, q.x)) \/ (p.x = q.x /\ LeU32(p.y, q.y))

\* The + of u32 panics on overflow where overflow checks are compiled in
\* (the dev profile) and wraps where they are not (the release profile).
Profiles == { "dev", "release" }

CenterPanic == [kind |-> "panic", v |-> Point(U32(0, 0), U32(0, 0))]
CenterUntried == [kind |-> "untried", v |-> Point(U32(0, 0), U32(0, 0))]

\* impl Add for Point, then impl Div<u32> for Point, as center() chains them
centerU32(b, profile) ==
    IF profile = "dev" /\ (WideAdd(b.min.x, b.max.x).ovf
                            \/ WideAdd(b.min.y, b.max.y).ovf)
    THEN CenterPanic
    ELSE [kind |-> "ok",
          v    |-> Point(DivU32(WideAdd(b.min.x, b.max.x).v, 2),
                         DivU32(WideAdd(b.min.y, b.max.y).v, 2))]

\* RegionNodeQt::new
NewNode(min, max) == [data |-> Gray, bounding |-> BoundingBoxNew(min, max)]

\* ------------------------------------------------------------------ images
PixelsOf(w, h) == (0 .. w - 1) \X (0 .. h - 1)

MkImage(w, h, f) == [w |-> w, h |-> h, px |-> f]

DenseImages(w, h) == { MkImage(w, h, f) : f \in [PixelsOf(w, h) -> Palette] }

RECURSIVE UpTo(_, _)
\* the subsets of S of at most k elements
UpTo(S, k) ==
    IF k = 0 THEN { {} }
    ELSE LET smaller == UpTo(S, k - 1)
         IN  smaller \cup { T \cup {p} : T \in smaller, p \in S }

SparseImages(w, h) ==
    UNION { UNION { { MkImage(w, h, [p \in PixelsOf(w, h) |->
                                        IF p \in S THEN f[p] ELSE bg])
                      : f \in [S -> Palette \ {bg}] }
                    : S \in UpTo(PixelsOf(w, h), MaxDiff) }
            : bg \in Palette }

\* the pixel values of the 2x2 images whose four pixels all differ
CheckerColors == Palette \cup { <<255, 0, 0, 255>>, <<0, 255, 0, 128>> }

Checkerboards ==
    { MkImage(2, 2, f) : f \in { g \in [PixelsOf(2, 2) -> CheckerColors] :
                                   \A p, q \in PixelsOf(2, 2) :
                                       g[p] = g[q] => p = q } }

Images ==
    Checkerboards \cup
    UNION { IF w * h <= MaxDense THEN DenseImages(w, h) ELSE SparseImages(w, h)
            : <<w, h>> \in (1 .. MaxW) \X (1 .. MaxH) }

\* The images of at most MaxSmall pixels.
SmallImages ==
    UNION { DenseImages(w, h) :
            <<w, h>> \in { d \in (1 .. MaxSmall) \X (1 .. MaxSmall) :
                             d[1] * d[2] <= MaxSmall } }

NoImage == MkImage(0, 0, <<>>)

\* get_color reading the pixel at (y, x)
get_color_transposed(im, x, y) ==
    IF y < im.w /\ x < im.h THEN Data(im.px[<<y, x>>]) ELSE Panic

\* get_color: GenericImageView::get_pixel panics outside the image
get_color(im, x, y) ==
    IF x < im.w /\ y < im.h THEN Data(im.px[<<x, y>>]) ELSE Panic

\* ------------------------------------------------ region_qt.rs: the nodes
NoTree == << >>

Child(p, i) == Append(p, i)

is_leaf(t, p) == \A i \in 0 .. 3 : Child(p, i) \notin DOMAIN t

\* The pixels visited by the two nested loops of calculate_color.
ScanOf(b) == (b.min.x .. b.max.x - 1) \X (b.min.y .. b.max.y - 1)

\* p is visited no later than q: x is the outer loop, y the inner one.
ScannedBefore(p, q) == (p[1] < q[1]) \/ (p[1] = q[1] /\ p[2] <= q[2])

\* calculate_color with the inner loop run for the first column only
calculate_color_first_column(b, im) ==
    LET current_color == get_color(im, b.min.x, b.min.y)
        stops == { p \in ScanOf(b) :
                     p[1] = b.min.x /\ get_color(im, p[1], p[2]) # current_color }
    IN  IF current_color = Panic THEN Panic
        ELSE IF stops = {} THEN current_color
        ELSE Gray

\* calculate_color with the outer loop stopping one column early
calculate_color_short_range(b, im) ==
    LET current_color == get_color(im, b.min.x, b.min.y)
        stops == { p \in ScanOf(b) :
                     p[1] < b.max.x - 1 /\ get_color(im, p[1], p[2]) # current_color }
    IN  IF current_color = Panic THEN Panic
        ELSE IF stops = {} THEN current_color
        ELSE Gray

\* calculate_color answering Gray when the loops visit no pixel
calculate_color_empty_gray(b, im) ==
    LET current_color == get_color(im, b.min.x, b.min.y)
        stops == { p \in ScanOf(b) : get_color(im, p[1], p[2]) # current_color }
    IN  IF current_color = Panic THEN Panic
        ELSE IF ScanOf(b) = {} THEN Gray
        ELSE IF stops = {} THEN current_color
        ELSE Gray

\* calculate_color with the outer loop running up to max.x inclusive
calculate_color_inclusive(b, im) ==
    LET current_color == get_color(im, b.min.x, b.min.y)
        scan  == (b.min.x .. b.max.x) \X (b.min.y .. b.max.y - 1)
        stops == { p \in scan : get_color(im, p[1], p[2]) # current_color }
        first == CHOOSE p \in stops : \A q \in stops : ScannedBefore(p, q)
    IN  IF current_color = Panic THEN Panic
        ELSE IF stops = {} THEN current_color
        ELSE IF get_color(im, first[1], first[2]) = Panic THEN Panic
        ELSE Gray

calculate_color(b, im) ==
    LET current_color == get_color(im, b.min.x, b.min.y)
        stops == { p \in ScanOf(b) : get_color(im, p[1], p[2]) # current_color }
        first == CHOOSE p \in stops : \A q \in stops : ScannedBefore(p, q)
    IN  IF current_color = Panic THEN Panic
        ELSE IF stops = {} THEN current_color
        ELSE IF get_color(im, first[1], first[2]) = Panic THEN Panic
        ELSE Gray

\* initialize_children with children[3] starting at min instead of
\* (center.x, min.y): it overlaps children[2]
ChildArgsWide(b) ==
    LET c == PointDiv(PointAdd(b.min, b.max), 2)
    IN  << [min |-> Point(b.min.x, c.y), max |-> Point(c.x, b.max.y)],
           [min |-> c,                   max |-> b.max],
           [min |-> b.min,               max |-> c],
           [min |-> b.min,               max |-> Point(b.max.x, c.y)] >>

\* initialize_children with children[3] ending at center instead of
\* (max.x, center.y): it leaves a quadrant uncovered
ChildArgsGap(b) ==
    LET c == PointDiv(PointAdd(b.min, b.max), 2)
    IN  << [min |-> Point(b.min.x, c.y), max |-> Point(c.x, b.max.y)],
           [min |-> c,                   max |-> b.max],
           [min |-> b.min,               max |-> c],
           [min |-> Point(c.x, b.min.y), max |-> c] >>

\* initialize_children with the boxes of children[0] and children[2] exchanged
ChildArgsSwapped(b) ==
    LET c == PointDiv(PointAdd(b.min, b.max), 2)
    IN  << [min |-> b.min,               max |-> c],
           [min |-> c,                   max |-> b.max],
           [min |-> Point(b.min.x, c.y), max |-> Point(c.x, b.max.y)],
           [min |-> Point(c.x, b.min.y), max |-> Point(b.max.x, c.y)] >>

\* The (min, max) arguments of the four RegionNodeQt::new calls of
\* initialize_children; element i + 1 is the one stored in children[i].
ChildArgs(b) ==
    LET c == center(b)
    IN  << [min |-> Point(b.min.x, c.y), max |-> Point(c.x, b.max.y)],
           [min |-> c,                   max |-> b.max],
           [min |-> b.min,               max |-> c],
           [min |-> Point(c.x, b.min.y), max |-> Point(b.max.x, c.y)] >>

\* every BoundingBox::new made by initialize_children passes its assertion
ChildArgsOk(b) ==
    \A i \in 1 .. 4 : BoundingBoxNewOk(ChildArgs(b)[i].min, ChildArgs(b)[i].max)

initialize_children(t, p) ==
    LET args == ChildArgs(t[p].bounding)
    IN  [q \in { Child(p, i) : i \in 0 .. 3 } |->
            NewNode(args[q[Len(q)] + 1].min, args[q[Len(q)] + 1].max)] @@ t

\* update with its loop over the children stopping at index 2
ChildCallsShort(p) == << Append(p, 0), Append(p, 1), Append(p, 2) >>

\* the update calls made on the children, in the order they are made
ChildCalls(p) == << Child(p, 0), Child(p, 1), Child(p, 2), Child(p, 3) >>

\* lines pushing the horizontal segment before the vertical one
NodeLinesHorizontalFirst(b) ==
    LET c == PointDiv(PointAdd(b.min, b.max), 2)
    IN  << << Point(b.min.x, c.y), Point(b.max.x, c.y) >>,
           << Point(c.x, b.min.y), Point(c.x, b.max.y) >> >>

\* The two segments pushed for an interior node.
NodeLines(b) ==
    LET c == center(b)
    IN  << << Point(c.x, b.min.y), Point(c.x, b.max.y) >>,
           << Point(b.min.x, c.y), Point(b.max.x, c.y) >> >>

RECURSIVE lines(_, _)
\* children.iter().flatten(): the children that are present, by index
ChildLines(t, p, i) ==
    IF Child(p, i) \in DOMAIN t THEN lines(t, Child(p, i)) ELSE << >>

lines(t, p) ==
    IF is_leaf(t, p) THEN << >>
    ELSE NodeLines(t[p].bounding) \o ChildLines(t, p, 0) \o ChildLines(t, p, 1)
            \o ChildLines(t, p, 2) \o ChildLines(t, p, 3)

\* ------------------------------ serde: the derived Serialize / Deserialize
\* The byte stream is modelled at the level of serde's data model: a
\* sequence of tokens, each an integer or a variant tag.
TagTok(s) == [k |-> "tag", s |-> s, n |-> 0]
IntTok(n) == [k |-> "int", s |-> "",  n |-> n]

\* A pickle stream opens with the PROTO opcode and closes with STOP.
Proto == TagTok("PROTO")
Stop == TagTok("STOP")
\* what is left of a token that the end of the stream cuts in two
Torn == TagTok("torn")

\* The file that does not exist, kept apart from the file of zero bytes.
NoFile == << TagTok("no file") >>

SerColor(d) ==
    IF d.tag = "Gray" THEN << TagTok("Gray") >>
    ELSE << TagTok("Data"), IntTok(d.c[1]), IntTok(d.c[2]),
            IntTok(d.c[3]), IntTok(d.c[4]) >>

\* Point written with its fields in the other order
SerPointSwapped(p) == << IntTok(p.y), IntTok(p.x) >>

SerPoint(p) == << IntTok(p.x), IntTok(p.y) >>

SerBoundingBox(b) == SerPoint(b.min) \o SerPoint(b.max)

RECURSIVE SerNode(_, _)
\* Option<Box<RegionNodeQt>>
SerOption(t, p) ==
    IF p \in DOMAIN t THEN << TagTok("Some") >> \o SerNode(t, p)
    ELSE << TagTok("None") >>

\* struct RegionNodeQt { data, bounding, children }
SerNode(t, p) ==
    SerColor(t[p].data) \o SerBoundingBox(t[p].bounding)
        \o SerOption(t, Child(p, 0)) \o SerOption(t, Child(p, 1))
        \o SerOption(t, Child(p, 2)) \o SerOption(t, Child(p, 3))

\* struct RegionQt { root, width, height }
SerRegionQt(q) ==
    << Proto >> \o SerOption(q.root, << >>)
        \o << IntTok(q.width), IntTok(q.height) >> \o << Stop >>

\* A decoding step yields the value read and the position after it, or fails.
DeFail == [ok |-> FALSE, pos |-> 0, v |-> << >>]
DeOk(pos, v) == [ok |-> TRUE, pos |-> pos, v |-> v]

IsTag(toks, pos, s) ==
    pos <= Len(toks) /\ toks[pos].k = "tag" /\ toks[pos].s = s

DeInt(toks, pos, limit) ==
    IF pos <= Len(toks) /\ toks[pos].k = "int" /\ toks[pos].n < limit
    THEN DeOk(pos + 1, toks[pos].n) ELSE DeFail

\* u8: the channel values
U8Limit == 256

\* u32: every integer the model writes fits, so no range test is modelled
DeU32(toks, pos) ==
    IF pos <= Len(toks) /\ toks[pos].k = "int"
    THEN DeOk(pos + 1, toks[pos].n) ELSE DeFail

DeColor(toks, pos) ==
    IF IsTag(toks, pos, "Gray") THEN DeOk(pos + 1, Gray)
    ELSE IF IsTag(toks, pos, "Data") THEN
        LET c1 == DeInt(toks, pos + 1, U8Limit)
            c2 == DeInt(toks, pos + 2, U8Limit)
            c3 == DeInt(toks, pos + 3, U8Limit)
            c4 == DeInt(toks, pos + 4, U8Limit)
        IN  IF c1.ok /\ c2.ok /\ c3.ok /\ c4.ok
            THEN DeOk(pos + 5, Data(<< c1.v, c2.v, c3.v, c4.v >>))
            ELSE DeFail
    ELSE DeFail

DePoint(toks, pos) ==
    LET x == DeU32(toks, pos)
        y == DeU32(toks, pos + 1)
    IN  IF x.ok /\ y.ok THEN DeOk(pos + 2, Point(x.v, y.v)) ELSE DeFail

\* the derived Deserialize fills the fields; it does not go through new()
DeBoundingBox(toks, pos) ==
    LET lo == DePoint(toks, pos)
        hi == DePoint(toks, pos + 2)
    IN  IF lo.ok /\ hi.ok THEN DeOk(pos + 4, [min |-> lo.v, max |-> hi.v])
        ELSE DeFail

\* the node read so far, once its bounding box has been read
DeNodeHead(d, b, p) ==
    IF b.ok THEN DeOk(b.pos, p :> [data |-> d.v, bounding |-> b.v]) ELSE DeFail

\* fields data and bounding of RegionNodeQt, in this order
DeNodeFields(d, toks, p) ==
    IF d.ok THEN DeNodeHead(d, DeBoundingBox(toks, d.pos), p) ELSE DeFail

\* the nodes read so far, with those of the child c
DeWithChild(r, c) == IF c.ok THEN DeOk(c.pos, r.v @@ c.v) ELSE DeFail

RECURSIVE DeNode(_, _, _)
\* Option<Box<RegionNodeQt>>
DeOption(toks, pos, p) ==
    IF IsTag(toks, pos, "None") THEN DeOk(pos + 1, NoTree)
    ELSE IF IsTag(toks, pos, "Some") THEN DeNode(toks, pos + 1, p)
    ELSE DeFail

\* the next element of children, read after what r holds
DeNextChild(r, toks, p) ==
    IF r.ok THEN DeWithChild(r, DeOption(toks, r.pos, p)) ELSE DeFail

\* struct RegionNodeQt { data, bounding, children }
DeNode(toks, pos, p) ==
    DeNextChild(
        DeNextChild(
            DeNextChild(
                DeNextChild(DeNodeFields(DeColor(toks, pos), toks, p),
                            toks, Child(p, 0)),
                toks, Child(p, 1)),
            toks, Child(p, 2)),
        toks, Child(p, 3))

\* the end of the value taken for STOP when the stream ends there
DeStopAtEof(v, toks) ==
    IF v.ok /\ v.pos >= Len(toks) THEN v ELSE DeFail

\* the value is complete at STOP, and nothing may follow it
DeStop(v, toks) ==
    IF v.ok /\ IsTag(toks, v.pos, "STOP") /\ v.pos = Len(toks) THEN v
    ELSE DeFail

\* field height of RegionQt, the last one
DeHeight(r, w, h, toks) ==
    IF h.ok
    THEN DeStop(DeOk(h.pos, [root |-> r.v, width |-> w.v, height |-> h.v]),
                toks)
    ELSE DeFail

DeWidth(r, w, toks) ==
    IF w.ok THEN DeHeight(r, w, DeU32(toks, w.pos), toks) ELSE DeFail

DeRoot(r, toks) ==
    IF r.ok THEN DeWidth(r, DeU32(toks, r.pos), toks) ELSE DeFail

\* struct RegionQt { root, width, height }
DeRegionQt(toks) ==
    IF IsTag(toks, 1, "PROTO") THEN DeRoot(DeOption(toks, 2, << >>), toks)
    ELSE DeFail

\* ------------------------------------------------------------------- state
VARIABLES
    root,       \* RegionQt.root: the tree, NoTree for None
    width,      \* RegionQt.width
    height,     \* RegionQt.height
    img,        \* the image decoded by build
    stack,      \* the pending calls of update, the running one first
    pc,         \* "idle", "building" or "panicked"
    fault,      \* what the program panicked on, "none" otherwise
    linesOut,   \* the vector get_lines has filled
    file,       \* the contents of the file written by write
    loaded,     \* the RegionQt returned by from_file
    done,       \* the operations whose results are current: "build" (root
                \* is the tree of img), "get_lines" (linesOut is of root),
                \* "write" (file is of root), "from_file" (loaded is of file),
                \* "rebuild" (build ran on a RegionQt that had a tree),
                \* "cut" (file is a proper prefix of what write produced)
    bbMin,      \* BoundingBox::new tried on its own: the arguments ...
    bbMax,
    bbOut,      \* ... and the outcome: "untried", "ok" or "panic"
    ref,        \* another RegionQt of the program, built once and kept
    refImg,     \* the image ref was built from
    ctrBox,     \* the BoundingBox whose center() is called
    ctrOut      \* ... and the outcome of that call

vars == << root, width, height, img, stack, pc, fault, linesOut, file, loaded,
           done, bbMin, bbMax, bbOut, ref, refImg, ctrBox, ctrOut >>

qtVars == << root, width, height, img, stack, pc, fault, linesOut, file,
             loaded, done >>

bbVars == << bbMin, bbMax, bbOut >>

refVars == << ref, refImg >>

ctrVars == << ctrBox, ctrOut >>

auxVars == << bbVars, refVars, ctrVars >>

\* RegionQt::new
NewRegionQt == [root |-> NoTree, width |-> 0, height |-> 0]

InitQt ==
    /\ root = NewRegionQt.root
    /\ width = NewRegionQt.width
    /\ height = NewRegionQt.height
    /\ img = NoImage
    /\ stack = << >>
    /\ pc = "idle"
    /\ fault = "none"
    /\ linesOut = << >>
    /\ file = NoFile
    /\ loaded = NewRegionQt
    /\ done = {}

InitBb ==
    /\ bbMin = Point(0, 0)
    /\ bbMax = Point(0, 0)
    /\ bbOut = "untried"

InitRef ==
    /\ ref = NewRegionQt
    /\ refImg = NoImage

InitCtr ==
    /\ ctrBox = BoundingBoxNew(Point(U32(0, 0), U32(0, 0)),
                               Point(U32(0, 0), U32(0, 0)))
    /\ ctrOut = CenterUntried

Init == InitQt /\ InitBb /\ InitRef /\ InitCtr

\* build that makes a root only when the RegionQt has none
BuildKeepRoot(im) ==
    /\ img' = im
    /\ width' = im.w
    /\ height' = im.h
    /\ root' = IF root = NoTree
               THEN (<< >> :> NewNode(Point(0, 0), Point(im.w, im.h)))
               ELSE root
    /\ stack' = << << >> >>
    /\ pc' = "building"
    /\ fault' = "none"
    /\ done' = IF root = NoTree THEN {} ELSE {"rebuild"}
    /\ UNCHANGED << linesOut, file, loaded, auxVars >>

\* RegionQt::build up to its call of update on the root.
Build(im) ==
    /\ img' = im
    /\ width' = im.w
    /\ height' = im.h
    /\ IF BoundingBoxNewOk(Point(0, 0), Point(im.w, im.h))
       THEN /\ root' = (<< >> :> NewNode(Point(0, 0), Point(im.w, im.h)))
            /\ stack' = << << >> >>
            /\ pc' = "building"
            /\ fault' = "none"
       ELSE /\ root' = root
            /\ stack' = stack
            /\ pc' = "panicked"
            /\ fault' = "bounding_box_assert"
    /\ done' = IF root = NoTree THEN {} ELSE {"rebuild"}
    /\ UNCHANGED << linesOut, file, loaded, auxVars >>

\* One call of RegionNodeQt::update, on the node on top of the stack.  Its
\* calls on the children run before anything else that is pending; build
\* returns when the call on the root has returned.
Update ==
    /\ pc = "building"
    /\ stack # << >>
    /\ LET p     == Head(stack)
           b     == root[p].bounding
           color == calculate_color(b, img)
           split == color = Gray /\ is_leaf(root, p)
           ok    == /\ color # Panic
                    /\ split => ChildArgsOk(b)
           rest  == IF split THEN ChildCalls(p) \o Tail(stack) ELSE Tail(stack)
       IN  /\ root' = IF ~ok THEN root
                      ELSE IF split THEN initialize_children(root, p)
                      ELSE IF color = Gray THEN root
                      ELSE [root EXCEPT ![p].data = color]
           /\ stack' = IF ok THEN rest ELSE stack
           /\ pc' = IF ~ok THEN "panicked"
                    ELSE IF rest = << >> THEN "idle" ELSE "building"
           /\ fault' = IF color = Panic THEN "pixel_out_of_bounds"
                       ELSE IF ~ok THEN "bounding_box_assert"
                       ELSE fault
           /\ done' = IF ok /\ rest = << >> THEN done \cup {"build"} ELSE done
    /\ UNCHANGED << width, height, img, linesOut, file, loaded, auxVars >>

\* get_lines that leaves the vector empty when there is no root
GetLinesSkipNone ==
    /\ pc = "idle"
    /\ linesOut' = IF root = NoTree THEN << >> ELSE lines(root, << >>)
    /\ done' = done \cup {"get_lines"}
    /\ UNCHANGED << pc, fault >>
    /\ UNCHANGED << root, width, height, img, stack, file, loaded, auxVars >>

\* RegionQt::get_lines, on a vector that is empty
GetLines ==
    /\ pc = "idle"
    /\ IF root = NoTree
       THEN /\ pc' = "panicked"
            /\ fault' = "unwrap_none"
            /\ UNCHANGED << linesOut, done >>
       ELSE /\ linesOut' = lines(root, << >>)
            /\ done' = done \cup {"get_lines"}
            /\ UNCHANGED << pc, fault >>
    /\ UNCHANGED << root, width, height, img, stack, file, loaded, auxVars >>

\* thread::current().name() as plot sees it
ThreadNames == { "main", "worker" }

\* RegionQt::plot up to the call of get_lines it makes on its own empty
\* vector, the window having been created; on a thread that is not named
\* "main" plot returns at once.
Plot(thread) ==
    IF thread = "main" THEN GetLines
    ELSE pc = "idle" /\ UNCHANGED vars

\* RegionQt::write
Write ==
    /\ pc = "idle"
    /\ file' = SerRegionQt([root |-> root, width |-> width, height |-> height])
    /\ done' = (done \ {"from_file", "cut"}) \cup {"write"}
    /\ UNCHANGED << root, width, height, img, stack, pc, fault, linesOut,
                    loaded, auxVars >>

\* RegionQt::from_file, on the file written by write
FromFile ==
    /\ pc = "idle"
    /\ LET r == DeRegionQt(file)
       IN  IF file = NoFile \/ ~r.ok
           THEN /\ pc' = "panicked"
                /\ fault' = IF file = NoFile THEN "no_file" ELSE "decode"
                /\ UNCHANGED << loaded, done >>
           ELSE /\ loaded' = r.v
                /\ done' = done \cup {"from_file"}
                /\ UNCHANGED << pc, fault >>
    /\ UNCHANGED << root, width, height, img, stack, linesOut, file, auxVars >>

\* build has returned and root is the tree of img
Built == pc = "idle" /\ "build" \in done

\* This specification follows one build, made on the RegionQt that new()
\* returned, before anything has been written.
Fresh == pc = "idle" /\ root = NoTree /\ file = NoFile

Next ==
    \/ (Fresh /\ \E im \in Images : Build(im))
    \/ Update
    \/ GetLines
    \/ (\E thread \in ThreadNames : Plot(thread))
    \/ Write
    \/ FromFile

Spec == Init /\ [][Next]_vars

\* ------------------------------------------------ a file that is cut short
\* The file keeps only its first k tokens, and of the next one possibly a
\* part.
Truncate(k, torn) ==
    /\ pc = "idle"
    /\ "write" \in done
    /\ k < Len(file)
    /\ file' = SubSeq(file, 1, k) \o (IF torn THEN << Torn >> ELSE << >>)
    /\ done' = (done \ {"write", "from_file"}) \cup {"cut"}
    /\ UNCHANGED << root, width, height, img, stack, pc, fault, linesOut,
                    loaded, auxVars >>

NextCorrupt ==
    \/ (Fresh /\ \E im \in SmallImages : Build(im))
    \/ Update
    \/ Write
    \/ (\E k \in 0 .. Len(file) - 1, torn \in BOOLEAN : Truncate(k, torn))
    \/ FromFile

SpecCorrupt == Init /\ [][NextCorrupt]_vars

\* ------------------------------------------- build on a RegionQt in use
\* let mut t = RegionQt::new() once a first RegionQt has been built: the
\* built one is kept as ref, and the variables follow the new one.
New ==
    /\ Built
    /\ "rebuild" \notin done
    /\ ref = NewRegionQt
    /\ ref' = [root |-> root, width |-> width, height |-> height]
    /\ refImg' = img
    /\ root' = NewRegionQt.root
    /\ width' = NewRegionQt.width
    /\ height' = NewRegionQt.height
    /\ img' = NoImage
    /\ done' = {}
    /\ UNCHANGED << stack, pc, fault, linesOut, file, loaded, bbVars, ctrVars >>

NextRebuild ==
    \/ (pc = "idle" /\ \E im \in SmallImages : Build(im))
    \/ Update
    \/ New

SpecRebuild == Init /\ [][NextRebuild]_vars

\* ------------------------------------- BoundingBox::new tried on its own
Coords == 0 .. MaxCoord

InitGeom ==
    /\ InitQt
    /\ bbMin \in { Point(x, y) : x \in Coords, y \in Coords }
    /\ bbMax \in { Point(x, y) : x \in Coords, y \in Coords }
    /\ bbOut = "untried"
    /\ InitRef
    /\ InitCtr

CallBoundingBoxNew ==
    /\ bbOut = "untried"
    /\ bbOut' = IF BoundingBoxNewOk(bbMin, bbMax) THEN "ok" ELSE "panic"
    /\ UNCHANGED << bbMin, bbMax, qtVars, refVars, ctrVars >>

NextGeom == CallBoundingBoxNew

SpecGeom == InitGeom /\ [][NextGeom]_vars

\* ------------------------------------------- center() at the width of u32
\* 0, 1, 2^31 - 1, 2^31, 2^32 - 2, 2^32 - 1
U32Samples ==
    { U32(0, 0), U32(0, 1), U32(32767, 65535), U32(32768, 0),
      U32(65535, 65534), U32(65535, 65535) }

\* the boxes BoundingBox::new accepts
InitCenter ==
    /\ InitQt /\ InitBb /\ InitRef
    /\ ctrBox \in { b \in [min : [x : U32Samples, y : U32Samples],
                            max : [x : U32Samples, y : U32Samples]] :
                       PointLeU32(b.min, b.max) }
    /\ ctrOut = CenterUntried

CallCenter(profile) ==
    /\ ctrOut = CenterUntried
    /\ ctrOut' = centerU32(ctrBox, profile)
    /\ UNCHANGED << ctrBox, qtVars, bbVars, refVars >>

NextCenter == \E profile \in Profiles : CallCenter(profile)

SpecCenter == InitCenter /\ [][NextCenter]_vars

\* ================================================================ claims
Qt == [root |-> root, width |-> width, height |-> height]

NumChildren(p) == Cardinality({ i \in 0 .. 3 : Append(p, i) \in DOMAIN root })

LeafPaths == { p \in DOMAIN root : NumChildren(p) = 0 }

InteriorPaths == { p \in DOMAIN root : NumChildren(p) > 0 }

BoxOf(p) == root[p].bounding

\* the half-open box [min.x, max.x) x [min.y, max.y)
InBox(b, x, y) == b.min.x <= x /\ x < b.max.x /\ b.min.y <= y /\ y < b.max.y

BoxPixels(b) == (b.min.x .. b.max.x - 1) \X (b.min.y .. b.max.y - 1)

BoxW(b) == b.max.x - b.min.x
BoxH(b) == b.max.y - b.min.y

ImagePixels == (0 .. img.w - 1) \X (0 .. img.h - 1)

LeavesAt(x, y) == { p \in LeafPaths : InBox(BoxOf(p), x, y) }

\* C1: once build has returned, every pixel of the w x h image lies in the
\* box of exactly one leaf, and that leaf stores the pixel's colour: painting
\* the leaves over their half-open boxes gives back the image.
LosslessPartition ==
    Built =>
        /\ width = img.w /\ height = img.h
        /\ \A q \in ImagePixels :
              /\ Cardinality(LeavesAt(q[1], q[2])) = 1
              /\ \A p \in LeavesAt(q[1], q[2]) :
                    root[p].data = [tag |-> "Data", c |-> img.px[q]]

LosslessPartitionWitness ==
    /\ Built
    /\ NumChildren(<< >>) = 4
    /\ \E p \in LeafPaths : BoxW(BoxOf(p)) = 0
    /\ \E p \in LeafPaths : BoxW(BoxOf(p)) * BoxH(BoxOf(p)) >= 2

\* C2: a tree that build produced, written by write and read back by
\* from_file, comes back with the same width and height and the same nodes:
\* the same colours over the same boxes at the same child positions.
RoundTripIdentity ==
    (Built /\ "write" \in done /\ "from_file" \in done) =>
        /\ loaded.width = width /\ loaded.height = height
        /\ DOMAIN loaded.root = DOMAIN root
        /\ \A p \in DOMAIN root :
              /\ loaded.root[p].data = root[p].data
              /\ loaded.root[p].bounding = root[p].bounding

RoundTripIdentityWitness ==
    /\ Built /\ "write" \in done /\ "from_file" \in done
    /\ \E p \in InteriorPaths : Len(p) = 1
    /\ width # height

\* C3: in a built tree every pixel of the image inside a leaf's box has the
\* colour the leaf stores.
LeafHomogeneity ==
    Built =>
        \A p \in LeafPaths : \A q \in ImagePixels :
            InBox(BoxOf(p), q[1], q[2]) =>
                root[p].data = [tag |-> "Data", c |-> img.px[q]]

LeafHomogeneityWitness ==
    /\ Built
    /\ \E p \in LeafPaths :
          /\ p # << >>
          /\ BoxW(BoxOf(p)) >= 2
          /\ BoxH(BoxOf(p)) >= 2

FloorCenter(b) ==
    [x |-> (b.min.x + b.max.x) \div 2, y |-> (b.min.y + b.max.y) \div 2]

\* two boxes lie on opposite sides of the line x = c.x or of the line y = c.y
SeparatedAt(c, a, b) ==
    \/ a.max.x <= c.x /\ c.x <= b.min.x
    \/ b.max.x <= c.x /\ c.x <= a.min.x
    \/ a.max.y <= c.y /\ c.y <= b.min.y
    \/ b.max.y <= c.y /\ c.y <= a.min.y

\* C4: the boxes of the four children of an interior node are pairwise
\* disjoint, their union is the box of the node, and any two of them are
\* separated by the line x = center.x or the line y = center.y of the node.
PartitionCompleteness ==
    Built =>
        \A p \in InteriorPaths :
            /\ NumChildren(p) = 4
            /\ UNION { BoxPixels(BoxOf(Append(p, i))) : i \in 0 .. 3 }
                  = BoxPixels(BoxOf(p))
            /\ \A i, j \in 0 .. 3 :
                  i # j =>
                    /\ BoxPixels(BoxOf(Append(p, i)))
                          \cap BoxPixels(BoxOf(Append(p, j))) = {}
                    /\ SeparatedAt(FloorCenter(BoxOf(p)), BoxOf(Append(p, i)),
                                   BoxOf(Append(p, j)))

PartitionCompletenessWitness ==
    /\ Built
    /\ \E p \in InteriorPaths :
          /\ BoxW(BoxOf(p)) = 3
          /\ BoxH(BoxOf(p)) = 2

Parent(p) == SubSeq(p, 1, Len(p) - 1)

\* C5: build terminates.  While build runs, the call of update that is
\* pending can be made; every call either returns, leaving the tree as it
\* is, or adds the four children of its node and calls update on them; and
\* the box of every node has fewer pixels than the box of its parent, so a
\* tree has finitely many nodes and update is called finitely often, also
\* where a split gives children of width or height zero.  A 1 x 1 image
\* gives a root that is a single leaf.
Termination ==
    /\ [](pc = "building" => ENABLED Update)
    /\ [][pc = "building" =>
            \/ /\ stack' = Tail(stack)
               /\ DOMAIN root' = DOMAIN root
            \/ /\ stack' = << Append(Head(stack), 0), Append(Head(stack), 1),
                             Append(Head(stack), 2), Append(Head(stack), 3) >>
                                \o Tail(stack)
               /\ DOMAIN root' =
                     DOMAIN root \cup { Append(Head(stack), i) : i \in 0 .. 3 }
               /\ DOMAIN root' # DOMAIN root]_vars
    /\ [](\A p \in DOMAIN root :
            p # << >> =>
                BoxW(BoxOf(p)) * BoxH(BoxOf(p))
                    < BoxW(BoxOf(Parent(p))) * BoxH(BoxOf(Parent(p))))
    /\ []((Built /\ width = 1 /\ height = 1) =>
            (DOMAIN root = { << >> } /\ root[<< >>].data.tag = "Data"))

TerminationWitness ==
    /\ Built
    /\ \E p \in DOMAIN root :
          /\ Len(p) >= 2
          /\ BoxW(BoxOf(p)) * BoxH(BoxOf(p)) = 0

\* C6: in a built tree a node has no child or four children; with no child
\* its data is Data(colour), with four children its data is Gray.
NodeShape ==
    Built =>
        \A p \in DOMAIN root :
            /\ NumChildren(p) \in {0, 4}
            /\ NumChildren(p) = 0 => root[p].data.tag = "Data"
            /\ NumChildren(p) = 4 => root[p].data.tag = "Gray"

NodeShapeWitness ==
    /\ Built
    /\ Cardinality(InteriorPaths) >= 2
    /\ Cardinality(LeafPaths) >= 7

\* C7: the children of a split node with box (min, max) and
\* c = floor((min + max) / 2) are, by index, 0: (min.x, c.y)-(c.x, max.y),
\* 1: c-max, 2: min-c, 3: (c.x, min.y)-(max.x, c.y); along an odd extent the
\* child on the min side is the narrower one.
CanonicalQuadrantLayout ==
    \A p \in InteriorPaths :
        LET b == BoxOf(p)
            cx == (b.min.x + b.max.x) \div 2
            cy == (b.min.y + b.max.y) \div 2
        IN  /\ BoxOf(Append(p, 0)) = [min |-> [x |-> b.min.x, y |-> cy],
                                      max |-> [x |-> cx, y |-> b.max.y]]
            /\ BoxOf(Append(p, 1)) = [min |-> [x |-> cx, y |-> cy],
                                      max |-> b.max]
            /\ BoxOf(Append(p, 2)) = [min |-> b.min,
                                      max |-> [x |-> cx, y |-> cy]]
            /\ BoxOf(Append(p, 3)) = [min |-> [x |-> cx, y |-> b.min.y],
                                      max |-> [x |-> b.max.x, y |-> cy]]
            /\ BoxW(b) % 2 = 1 =>
                  BoxW(BoxOf(Append(p, 2))) + 1 = BoxW(BoxOf(Append(p, 1)))
            /\ BoxH(b) % 2 = 1 =>
                  BoxH(BoxOf(Append(p, 2))) + 1 = BoxH(BoxOf(Append(p, 1)))

CanonicalQuadrantLayoutWitness ==
    /\ Built
    /\ \E p \in InteriorPaths :
          /\ p # << >>
          /\ BoxW(BoxOf(p)) % 2 = 1
          /\ BoxOf(p).min.x > 0

\* p comes before q in the pre-order of the tree: p is an ancestor of q, or
\* at the first index where they differ p takes the child of lower index.
PreOrderBefore(p, q) ==
    \/ Len(p) < Len(q) /\ SubSeq(q, 1, Len(p)) = p
    \/ \E k \in 1 .. Len(p) :
          /\ k <= Len(q)
          /\ SubSeq(p, 1, k - 1) = SubSeq(q, 1, k - 1)
          /\ p[k] < q[k]

PreOrderRank(p) == Cardinality({ q \in InteriorPaths : PreOrderBefore(q, p) })

\* C8: get_lines on a built tree gives two segments for every interior node
\* and none for a leaf, the nodes in pre-order; the first of the two is the
\* vertical one from (center.x, min.y) to (center.x, max.y), the second the
\* horizontal one from (min.x, center.y) to (max.x, center.y).
SplitLines ==
    (Built /\ "get_lines" \in done) =>
        /\ Len(linesOut) = 2 * Cardinality(InteriorPaths)
        /\ \A p \in InteriorPaths :
              LET b == BoxOf(p)
                  cx == (b.min.x + b.max.x) \div 2
                  cy == (b.min.y + b.max.y) \div 2
                  k == 2 * PreOrderRank(p)
              IN  /\ linesOut[k + 1] = << [x |-> cx, y |-> b.min.y],
                                          [x |-> cx, y |-> b.max.y] >>
                  /\ linesOut[k + 2] = << [x |-> b.min.x, y |-> cy],
                                          [x |-> b.max.x, y |-> cy] >>

SplitLinesWitness ==
    /\ Built /\ "get_lines" \in done
    /\ Len(linesOut) >= 6
    /\ \E p \in InteriorPaths : Len(p) = 1 /\ p[1] = 3
    /\ \E p \in InteriorPaths : Len(p) = 1 /\ p[1] = 1

\* C9: BoundingBox::new(min, max) panics exactly when min.x > max.x or
\* min.y > max.y.
BoundingBoxNewContract ==
    bbOut # "untried" =>
        (bbOut = "panic" <=> (bbMin.x > bbMax.x \/ bbMin.y > bbMax.y))

Uniform(b) ==
    Cardinality({ img.px[q] : q \in BoxPixels(b) \cap ImagePixels }) <= 1

\* C10: a node of a built tree is a leaf exactly when the pixels of the image
\* in its box all have one colour (none at all counts); a uniform w x h
\* image gives a single leaf over (0,0)-(w,h) with that colour, and
\* get_lines gives no segment for it.
UniformMinimality ==
    Built =>
        /\ \A p \in DOMAIN root : (NumChildren(p) = 0) <=> Uniform(BoxOf(p))
        /\ (\A q \in ImagePixels : img.px[q] = img.px[<<0, 0>>]) =>
              /\ DOMAIN root = { << >> }
              /\ root[<< >>] =
                    [data |-> [tag |-> "Data", c |-> img.px[<<0, 0>>]],
                     bounding |-> [min |-> [x |-> 0, y |-> 0],
                                   max |-> [x |-> img.w, y |-> img.h]]]
              /\ "get_lines" \in done => linesOut = << >>

UniformMinimalityWitness ==
    /\ Built /\ "get_lines" \in done
    /\ img.w = 4 /\ img.h = 4
    /\ \A q \in ImagePixels : img.px[q] = <<10, 20, 30, 255>>

FourDistinct ==
    /\ img.w = 2 /\ img.h = 2
    /\ \A p, q \in ImagePixels : img.px[p] = img.px[q] => p = q

UnitLeaf(p, x, y) ==
    /\ p \in LeafPaths
    /\ BoxOf(p) = [min |-> Point(x, y), max |-> Point(x + 1, y + 1)]
    /\ root[p].data = [tag |-> "Data", c |-> img.px[<<x, y>>]]

\* C11: the tree built from a 2x2 image of four different colours is an
\* interior (Gray) root over (0,0)-(2,2) with exactly four children, each a
\* 1x1 leaf storing the colour of the one pixel of its box: child 0 over
\* (0,1)-(1,2), child 1 over (1,1)-(2,2), child 2 over (0,0)-(1,1), child 3
\* over (1,0)-(2,1); and get_lines gives exactly two segments, the vertical
\* and the horizontal line through the root's center (1,1).
Checkerboard ==
    (Built /\ FourDistinct) =>
        /\ DOMAIN root = { << >>, <<0>>, <<1>>, <<2>>, <<3>> }
        /\ root[<< >>].data = [tag |-> "Gray", c |-> << >>]
        /\ BoxOf(<< >>) = [min |-> Point(0, 0), max |-> Point(2, 2)]
        /\ UnitLeaf(<<0>>, 0, 1)
        /\ UnitLeaf(<<1>>, 1, 1)
        /\ UnitLeaf(<<2>>, 0, 0)
        /\ UnitLeaf(<<3>>, 1, 0)
        /\ "get_lines" \in done =>
              /\ Len(linesOut) = 2
              /\ { linesOut[1], linesOut[2] } =
                    { << Point(1, 0), Point(1, 2) >>,
                      << Point(0, 1), Point(2, 1) >> }

CheckerboardWitness ==
    /\ Built /\ FourDistinct /\ "get_lines" \in done
    /\ img.px[<<0, 0>>] = <<255, 0, 0, 255>>
    /\ img.px[<<1, 1>>] = <<0, 255, 0, 128>>

\* C12: build on a RegionQt that already holds a tree leaves the same root
\* tree, width and height as build of the same image on a RegionQt fresh
\* from new(): nothing of the earlier tree or of its dimensions is left.
BuildDiscardsPrior ==
    (Built /\ "rebuild" \in done /\ ref # NewRegionQt /\ img = refImg) =>
        Qt = ref

BuildDiscardsPriorWitness ==
    /\ Built /\ "rebuild" \in done /\ ref # NewRegionQt /\ img = refImg
    /\ NumChildren(<< >>) = 4
    /\ Qt = ref

EmptyTreeOnSave ==
    root = NoTree => (file = NoFile /\ "write" \notin done)

\* C15: from_file on a file that is a proper prefix of what write produced
\* (cut between two tokens or inside one) panics on the decoding error and
\* returns no RegionQt: the stream does not decode, nothing is loaded from
\* it.
CorruptDecode ==
    /\ []("cut" \in done => (~DeRegionQt(file).ok /\ "from_file" \notin done))
    /\ [][("cut" \in done /\ FromFile) =>
            (pc' = "panicked" /\ fault' = "decode" /\ loaded' = loaded
             /\ done' = done)]_vars

CorruptDecodeWitness ==
    /\ "cut" \in done
    /\ pc = "panicked" /\ fault = "decode"
    /\ NumChildren(<< >>) = 4
    /\ Len(file) = Len(SerRegionQt(Qt)) - 1
    /\ file[Len(file)] # Torn

\* C16: at every point of build, a node whose box is at most one pixel
\* wide and at most one pixel high (zero width or zero height included) has
\* no children, so initialize_children has not run on it; and once build
\* has returned such a node stores a colour.
TerminationPolicy ==
    \A p \in DOMAIN root :
        (BoxW(BoxOf(p)) <= 1 /\ BoxH(BoxOf(p)) <= 1) =>
            /\ NumChildren(p) = 0
            /\ Built => root[p].data.tag = "Data"

TerminationPolicyWitness ==
    /\ Built
    /\ \E p \in DOMAIN root : BoxW(BoxOf(p)) = 1 /\ BoxH(BoxOf(p)) = 1
                                /\ Len(p) = 2
    /\ \E p \in DOMAIN root : BoxW(BoxOf(p)) = 0 /\ BoxH(BoxOf(p)) = 1

\* floor((a + b) / 2), computed over the full sum
FloorMidU32(a, b) ==
    U32((a.hi + b.hi + (a.lo + b.lo) \div Half) \div 2,
        (((a.hi + b.hi + (a.lo + b.lo) \div Half) % 2) * Half
            + ((a.lo + b.lo) % Half)) \div 2)

\* C17: for every box with min.x <= max.x and min.y <= max.y over u32,
\* center() returns (floor((min.x + max.x) / 2), floor((min.y + max.y) / 2)),
\* which lies between min and max in both coordinates, and it does so
\* without overflow or panic also when a sum reaches 2^32.
CenterTotal ==
    (/\ ctrOut # CenterUntried
     /\ LeU32(ctrBox.min.x, ctrBox.max.x)
     /\ LeU32(ctrBox.min.y, ctrBox.max.y)) =>
        /\ ctrOut.kind = "ok"
        /\ ctrOut.v.x = FloorMidU32(ctrBox.min.x, ctrBox.max.x)
        /\ ctrOut.v.y = FloorMidU32(ctrBox.min.y, ctrBox.max.y)
        /\ LeU32(ctrBox.min.x, ctrOut.v.x) /\ LeU32(ctrOut.v.x, ctrBox.max.x)
        /\ LeU32(ctrBox.min.y, ctrOut.v.y) /\ LeU32(ctrOut.v.y, ctrBox.max.y)

\* C18: build never panics on a pixel read or on the assertion of
\* BoundingBox::new: every node it makes has a box with min.x <= max.x and
\* min.y <= max.y that lies inside the image, and whose corner (min.x, min.y),
\* the pixel calculate_color reads before its loops, is a pixel of the image
\* also when the box has zero width or zero height.
InBoundsSampling ==
    /\ fault \notin { "pixel_out_of_bounds", "bounding_box_assert" }
    /\ \A p \in DOMAIN root :
          /\ BoxOf(p).min.x <= BoxOf(p).max.x
          /\ BoxOf(p).min.y <= BoxOf(p).max.y
          /\ BoxOf(p).max.x <= img.w
          /\ BoxOf(p).max.y <= img.h
          /\ BoxOf(p).min.x < img.w
          /\ BoxOf(p).min.y < img.h

InBoundsSamplingWitness ==
    /\ Built /\ fault = "none"
    /\ \E p \in LeafPaths :
          /\ Len(p) = 2
          /\ BoxH(BoxOf(p)) = 0
          /\ BoxOf(p).min.y = img.h - 1
          /\ BoxOf(p).max.x = img.w

====
